---- MODULE Spec2Model ----
(***************************************************************************)
(* A model of the Spread client spread.rs: src/src/lib.rs (handshake,      *)
(* message codec, session operations, receiver) and src/src/util.rs        *)
(* (32-bit integer codec).                                                 *)
(*                                                                         *)
(* Representation.                                                         *)
(*  - A byte is a number 0..255; a byte vector is a sequence of bytes.     *)
(*  - A u32 is a pair <<hi, lo>> of 16-bit halves (value hi*2^16 + lo):    *)
(*    TLC's integers are 32-bit signed, and the code's words               *)
(*    (0x80000080, 0xffffff00) do not fit them.                            *)
(*  - A Rust string is its sequence of Unicode code points; str.len() is   *)
(*    the length of its UTF-8 encoding (StrLen), not the number of chars.  *)
(*  - A Result is a record with a field ok.                                *)
(***************************************************************************)
EXTENDS Integers, Sequences, FiniteSets, TLC

VARIABLES
    \* ---- connect(): lib.rs 123-263
    pc,                  \* position of connect() in its sequence of I/O steps
    arg_private_name,    \* argument private_name
    arg_membership,      \* argument receive_membership_messages
    written,             \* what connect() wrote to the stream, one entry per write_all
    io_trace,            \* the I/O steps connect() performed, in order
    authname_len,        \* local authname_len (-2 before it is read)
    accepted,            \* local accepted (-2 before it is read)
    version,             \* locals <<major, minor, patch>> (<<>> before they are read)
    group_name_buf,      \* local group_name_buf (<<>> before it is read)
    result,              \* what connect() returned
    \* ---- encode_message / receive as functions: lib.rs 267-302, 389-455
    c_pc, c_in, c_frame, c_msg,
    \* ---- a session: lib.rs 77-82, 304-455
    private_name,        \* SpreadClient.private_name
    groups,              \* SpreadClient.groups
    stream_out,          \* bytes written to the stream, one entry per write_all
    stream_in,           \* bytes the daemon sent that are not read yet
    last_op,             \* the last operation called, with its arguments
    last_result,         \* what it returned
    nops,                \* number of operations called so far
    received,            \* the messages receive returned so far, in order
    \* ---- the functions of util.rs: util.rs 6-40
    u_pc, u_x, u_bytes, u_int, u_flip, u_flip2, u_same

hs_vars == <<pc, arg_private_name, arg_membership, written, io_trace, authname_len,
             accepted, version, group_name_buf, result>>
codec_vars == <<c_pc, c_in, c_frame, c_msg>>
session_vars == <<private_name, groups, stream_out, stream_in, last_op, last_result, nops,
                  received>>
util_vars == <<u_pc, u_x, u_bytes, u_int, u_flip, u_flip2, u_same>>
vars == <<hs_vars, codec_vars, session_vars, util_vars>>

----------------------------------------------------------------------------
(* Sequences *)

\* n copies of x
Rep(x, n) == [i \in 1..n |-> x]

\* s[a..b) with 0-based bounds, as a Rust slice &s[a..b]
Slice(s, a, b) == SubSeq(s, a + 1, b)

RECURSIVE Concat(_)
Concat(ss) == IF ss = <<>> THEN <<>> ELSE Head(ss) \o Concat(Tail(ss))

RECURSIVE Pow2(_)
Pow2(n) == IF n = 0 THEN 1 ELSE 2 * Pow2(n - 1)

Ok(v) == [ok |-> TRUE, val |-> v]
Err(e) == [ok |-> FALSE, err |-> e]

----------------------------------------------------------------------------
(* u32 arithmetic on 16-bit halves *)

K16 == 256 * 256

RECURSIVE And16(_, _)
And16(a, b) == IF a = 0 \/ b = 0 THEN 0
               ELSE (a % 2) * (b % 2) + 2 * And16(a \div 2, b \div 2)

RECURSIVE Or16(_, _)
Or16(a, b) == IF a = 0 THEN b ELSE IF b = 0 THEN a
              ELSE (IF a % 2 = 1 \/ b % 2 = 1 THEN 1 ELSE 0) + 2 * Or16(a \div 2, b \div 2)

\* a number 0 <= n < 2^31 as a u32 (`n as u32`)
U32(n) == <<n \div K16, n % K16>>

And32(x, y) == <<And16(x[1], y[1]), And16(x[2], y[2])>>
Or32(x, y) == <<Or16(x[1], y[1]), Or16(x[2], y[2])>>

\* x >> p, 0 <= p < 32
Shr(x, p) == IF p >= 16 THEN <<0, x[1] \div Pow2(p - 16)>>
             ELSE <<x[1] \div Pow2(p), (x[2] \div Pow2(p)) + (x[1] % Pow2(p)) * Pow2(16 - p)>>

\* x << p, 0 <= p < 32, the bits shifted out of the word are lost
Shl(x, p) == IF p >= 16 THEN <<(x[2] * Pow2(p - 16)) % K16, 0>>
             ELSE <<(x[1] * Pow2(p) + x[2] \div Pow2(16 - p)) % K16, (x[2] * Pow2(p)) % K16>>

\* `x as u8`
AsU8(x) == x[2] % 256

\* `x as i32`: the same 32 bits read as two's complement
AsI32(x) == IF x[1] >= 32768 THEN (x[1] - K16) * K16 + x[2] ELSE x[1] * K16 + x[2]

\* `x as usize` (64-bit usize) where the model compares it with the length of a
\* stream: a word of 2^24 or more is longer than any stream of the model, and is
\* read as 2^24.
AsUsize(x) == IF x[1] >= 256 THEN 256 * K16 ELSE x[1] * K16 + x[2]

----------------------------------------------------------------------------
(* util.rs *)

\* the sentinel bit of the most significant byte alone, 0x80000000
ENDIANTYPE_high_only == <<32768, 0>>

ENDIANTYPE == <<32768, 128>>        \* 0x80000080

\* The bytes of i as pushed for p = 0, 8, 16, 24, not reversed
int_to_bytes_unreversed(i) ==
    [k \in 1..4 |-> AsU8(And32(Shr(i, 8 * (k - 1)), U32(255)))]

\* The bytes of i, most significant first: pushed for p = 0, 8, 16, 24 and
\* then reversed.
int_to_bytes(i) ==
    LET v == [k \in 1..4 |-> AsU8(And32(Shr(i, 8 * (k - 1)), U32(255)))]
    IN  [k \in 1..4 |-> v[5 - k]]

bytes_to_int(bytes) ==
    LET i0 == And32(U32(bytes[1]), U32(255))
        i1 == And32(U32(bytes[2]), U32(255))
        i2 == And32(U32(bytes[3]), U32(255))
        i3 == And32(U32(bytes[4]), U32(255))
    IN  Or32(Or32(Or32(Shl(i0, 24), Shl(i1, 16)), Shl(i2, 8)), i3)

same_endianness(i) == And32(i, ENDIANTYPE) = <<0, 0>>

flip_endianness(i) ==
    LET i0 == And32(Shr(i, 24), <<0, 255>>)          \* 0x000000ff
        i1 == And32(Shr(i, 8), <<0, 65280>>)         \* 0x0000ff00
        i2 == And32(Shl(i, 8), <<255, 0>>)           \* 0x00ff0000
        i3 == And32(Shl(i, 24), <<65280, 0>>)        \* 0xff000000
    IN  Or32(Or32(Or32(i0, i1), i2), i3)

----------------------------------------------------------------------------
(* Strings and the text codecs *)

\* The number of bytes of the UTF-8 encoding of code point c
Utf8Width(c) == IF c < 128 THEN 1 ELSE IF c < 2048 THEN 2 ELSE IF c < 65536 THEN 3 ELSE 4

Utf8Char(c) ==
    IF c < 128 THEN <<c>>
    ELSE IF c < 2048 THEN <<192 + c \div 64, 128 + (c % 64)>>
    ELSE IF c < 65536 THEN <<224 + c \div 4096, 128 + ((c \div 64) % 64), 128 + (c % 64)>>
    ELSE <<240 + c \div 262144, 128 + ((c \div 4096) % 64), 128 + ((c \div 64) % 64),
           128 + (c % 64)>>

\* The in-memory bytes of a string
RECURSIVE Utf8(_)
Utf8(s) == IF s = <<>> THEN <<>> ELSE Utf8Char(Head(s)) \o Utf8(Tail(s))

\* str::len(): the length in bytes
RECURSIVE StrLen(_)
StrLen(s) == IF s = <<>> THEN 0 ELSE Utf8Width(Head(s)) + StrLen(Tail(s))

IsCont(b) == b >= 128 /\ b <= 191

\* String::from_utf8: the string of a well-formed UTF-8 byte vector, an error
\* otherwise (overlong forms, surrogates, code points above 0x10FFFF and
\* truncated sequences are rejected).
RECURSIVE from_utf8(_)
from_utf8(b) ==
    IF b = <<>> THEN Ok(<<>>)
    ELSE
      LET b0 == b[1]
          n  == Len(b)
          w  == IF b0 < 128 THEN 1
                ELSE IF b0 >= 194 /\ b0 <= 223 THEN 2
                ELSE IF b0 >= 224 /\ b0 <= 239 THEN 3
                ELSE IF b0 >= 240 /\ b0 <= 244 THEN 4
                ELSE 0
          good == /\ w > 0
                  /\ n >= w
                  /\ \A k \in 2..w : IsCont(b[k])
                  /\ (b0 = 224 => b[2] >= 160)
                  /\ (b0 = 237 => b[2] <= 159)
                  /\ (b0 = 240 => b[2] >= 144)
                  /\ (b0 = 244 => b[2] <= 143)
      IN  IF ~good THEN Err("invalid utf-8")
          ELSE
            LET c == IF w = 1 THEN b0
                     ELSE IF w = 2 THEN (b0 - 192) * 64 + (b[2] - 128)
                     ELSE IF w = 3 THEN (b0 - 224) * 4096 + (b[2] - 128) * 64 + (b[3] - 128)
                     ELSE (b0 - 240) * 262144 + (b[2] - 128) * 4096
                          + (b[3] - 128) * 64 + (b[4] - 128)
                rest == from_utf8(SubSeq(b, w + 1, n))
            IN  IF rest.ok THEN Ok(<<c>> \o rest.val) ELSE rest

\* an encoder that puts '?' for a char it cannot represent (EncoderTrap::Replace)
ISO_8859_1_encode_replace(s) ==
    Ok([i \in 1..Len(s) |-> IF s[i] > 255 THEN 63 ELSE s[i]])

\* ISO_8859_1.encode(s, EncoderTrap::Strict): one byte per char, the char's
\* code point; a char above U+00FF cannot be represented.
ISO_8859_1_encode(s) ==
    IF \E i \in 1..Len(s) : s[i] > 255 THEN Err("unrepresentable character")
    ELSE Ok([i \in 1..Len(s) |-> s[i] % 256])

\* ISO_8859_1.decode(b, DecoderTrap::Strict): every byte is a char; it never fails.
ISO_8859_1_decode(b) == Ok([i \in 1..Len(b) |-> b[i]])

\* format!("{}", n) for an integer n, as a string
RECURSIVE FormatNat(_)
FormatNat(n) == IF n < 10 THEN <<48 + n>> ELSE FormatNat(n \div 10) \o <<48 + (n % 10)>>

FormatInt(n) == IF n < 0 THEN <<45>> \o FormatNat(-n) ELSE FormatNat(n)

----------------------------------------------------------------------------
(* lib.rs: constants *)

MAX_PRIVATE_NAME_LENGTH == 10
DEFAULT_AUTH_NAME == <<78, 85, 76, 76>>      \* "NULL"
MAX_AUTH_NAME_LENGTH == 30
MAX_AUTH_METHOD_COUNT == 3
MAX_GROUP_NAME_LENGTH == 32

\* enum ControlServiceType, as u32
JoinMessage == <<1, 0>>                      \* 0x00010000
LeaveMessage == <<2, 0>>                     \* 0x00020000
KillMessage == <<4, 0>>                      \* 0x00040000
ReliableMessage == <<0, 2>>                  \* 0x00000002

SPREAD_MAJOR_VERSION == 4
SPREAD_MINOR_VERSION == 4
SPREAD_PATCH_VERSION == 0

\* SpreadError::AcceptSession
AcceptSession == 1

\* Option<String>
None == <<>>
Some(x) == <<x>>

\* std::old_io::IoError
IoError(kind, desc, detail) == [kind |-> kind, desc |-> desc, detail |-> detail]

\* An error of the transport itself, passed on by try!
TransportError(kind) == IoError(kind, "transport error", None)

----------------------------------------------------------------------------
(* lib.rs 86-112: encode_connect_message *)

encode_connect_message(name, receive_membership_messages) ==
    LET mask == IF receive_membership_messages THEN 16 ELSE 0
        private_name_buf == ISO_8859_1_encode(name)
    IN  IF ~private_name_buf.ok
        THEN Err("Failed to encode private name")
        ELSE Ok(<<SPREAD_MAJOR_VERSION, SPREAD_MINOR_VERSION, SPREAD_PATCH_VERSION, mask>>
                \o <<StrLen(name) % 256>>
                \o private_name_buf.val)

----------------------------------------------------------------------------
(* lib.rs 123-263: connect *)

\* &s[..n]: the prefix of s that is n bytes long; a panic when byte n is not
\* a char boundary.
StrPrefix(s, n) ==
    IF \E k \in 0..Len(s) : StrLen(SubSeq(s, 1, k)) = n
    THEN Ok(SubSeq(s, 1, CHOOSE k \in 0..Len(s) : StrLen(SubSeq(s, 1, k)) = n))
    ELSE Err("panic: not a char boundary")

\* lib.rs 129-133
truncated_private_name(name) ==
    IF StrLen(name) > MAX_PRIVATE_NAME_LENGTH
    THEN StrPrefix(name, MAX_PRIVATE_NAME_LENGTH)
    ELSE Ok(name)

\* RejectCode without the sign extension: the byte itself
RejectCode_zero_extended(b) == AsI32(U32(b))

\* lib.rs 162, 201: (0xffffff00 | b as u32) as i32
RejectCode(b) == AsI32(Or32(<<65535, 65280>>, U32(b)))

\* lib.rs 158-164: the auth-offer length that refuses the connection
AuthLenError(len) ==
    IF len = -1
    THEN Some(IoError("ConnectionFailed",
                      "Connection closed during connect attempt to read auth name length",
                      None))
    ELSE IF len >= 128
    THEN Some(IoError("ConnectionRefused", "Connection attempt rejected",
                      Some(FormatInt(RejectCode(len)))))
    ELSE None

\* lib.rs 179-190: the auth method choice that is written
AuthChoice(len) ==
    LET n == MAX_AUTH_NAME_LENGTH * MAX_AUTH_METHOD_COUNT + 1
    IN  ISO_8859_1_encode(DEFAULT_AUTH_NAME).val \o Rep(0, IF n > len THEN n - len ELSE 0)

\* lib.rs 197-203
AcceptError(b) ==
    IF b # AcceptSession
    THEN Some(IoError("ConnectionFailed", "Connection attempt rejected",
                      Some(FormatInt(RejectCode(b)))))
    ELSE None

\* "{}.{}.{}"
FormatVersion(v) == FormatInt(v[1]) \o <<46>> \o FormatInt(v[2]) \o <<46>> \o FormatInt(v[3])

version_sum(v) == (v[1] * 10000) + (v[2] * 100) + v[3]

\* VersionError with <= for <: 3.1.0 itself is refused
VersionError_le(v) ==
    IF version_sum(v) <= 30100
    THEN Some(IoError("ConnectionFailed",
                      "Server is running old, unsupported version of Spread",
                      Some(FormatVersion(v))))
    ELSE None

\* lib.rs 218-233
VersionError(v) ==
    IF v[1] = -1 \/ v[2] = -1 \/ v[3] = -1
    THEN Some(IoError("ConnectionFailed", "Invalid version returned from server",
                      Some(FormatVersion(v))))
    ELSE IF version_sum(v) < 30100
    THEN Some(IoError("ConnectionFailed",
                      "Server is running old, unsupported version of Spread",
                      Some(FormatVersion(v))))
    ELSE None

\* lib.rs 237-243
NameLenError(len) ==
    IF len = -1
    THEN Some(IoError("ConnectionFailed",
                      "Connection closed during connect attempt to read group name length",
                      None))
    ELSE None

\* SpreadClient keeping the name the caller asked for
SpreadClient_requested_name(name, receive_membership_messages) ==
    [private_name |-> arg_private_name, groups |-> <<>>,
     receive_membership_messages |-> receive_membership_messages]

\* lib.rs 77-82, 257-262: the client connect returns
SpreadClient(name, receive_membership_messages) ==
    [private_name |-> name, groups |-> <<>>,
     receive_membership_messages |-> receive_membership_messages]

\* lib.rs 245-262
ConnectResult(buf, receive_membership_messages) ==
    LET private_group_name == from_utf8(buf)
    IN  IF private_group_name.ok
        THEN Ok(SpreadClient(private_group_name.val, receive_membership_messages))
        ELSE Err(IoError("ConnectionFailed", "Server sent invalid group name",
                         Some(private_group_name.err)))

(* Inputs of connect and what the daemon may send *)

\* the longest run of 'a' in a requested private name
MaxNameRun == 11

\* Requested private names: a run of 'a', then nothing, a Latin-1 letter
\* (U+00E9, two bytes in memory, one on the wire) or a char Latin-1 cannot
\* represent (U+20AC).
ArgNames == {Rep(97, n) \o t : n \in 0..MaxNameRun, t \in {<<>>, <<233>>, <<8364>>}}

\* Kinds of transport errors
ConnectErrorKinds == {"ConnectionRefused"}
StreamErrorKinds == {"EndOfFile"}

\* Bytes the daemon may send as auth-offer length
AuthLenBytes == {0, 1, 4, 90, 91, 92, 127, 128, 130, 255}
\* ... as accept byte
AcceptBytes == {0, 1, 2, 129, 247, 255}
\* ... as version
MajorBytes == {2, 3, 4}
MinorBytes == {0, 1, 255}
PatchBytes == {0, 99, 100, 255}
\* ... as assigned name: "", "abc", "#a#b" forms, U+00E9 in UTF-8, U+20AC in
\* UTF-8, and vectors that are not UTF-8 (a lone Latin-1 byte, a truncated
\* sequence, an overlong form)
DaemonNames == {<<>>, <<97, 98, 99>>, <<35, 97, 35, 98>>, <<195, 169>>, <<226, 130, 172>>,
                <<233>>, <<97, 226, 130>>, <<192, 128>>}

NotRead == 0 - 2

HsInit ==
    /\ pc = "start"
    /\ arg_private_name \in ArgNames
    /\ arg_membership \in BOOLEAN
    /\ written = <<>>
    /\ io_trace = <<>>
    /\ authname_len = NotRead
    /\ accepted = NotRead
    /\ version = <<>>
    /\ group_name_buf = <<>>
    /\ result = Err(IoError("", "", None))

HsLocals == <<authname_len, accepted, version, group_name_buf>>

\* connect returns Err(e)
HsFail(e) == pc' = "failed" /\ result' = Err(e)

\* lib.rs 128-148: truncate the name, encode the connect message, open the
\* stream and write the message
SendConnect ==
    /\ pc = "start"
    /\ UNCHANGED <<codec_vars, session_vars, util_vars>>
    /\ UNCHANGED <<arg_private_name, arg_membership, HsLocals>>
    /\ LET name == truncated_private_name(arg_private_name)
           connect_message == encode_connect_message(name.val, arg_membership)
       IN  IF ~name.ok
           THEN /\ pc' = "panicked"
                /\ UNCHANGED <<result, written, io_trace>>
           ELSE IF ~connect_message.ok
           THEN /\ HsFail(IoError("ConnectionFailed", "", Some(connect_message.err)))
                /\ UNCHANGED <<written, io_trace>>
           ELSE \/ \E k \in ConnectErrorKinds :
                     /\ HsFail(TransportError(k))
                     /\ UNCHANGED <<written, io_trace>>
                \/ \E k \in StreamErrorKinds :
                     /\ HsFail(TransportError(k))
                     /\ io_trace' = Append(io_trace, "write_connect")
                     /\ UNCHANGED written
                \/ /\ pc' = "read_auth_len"
                   /\ written' = Append(written, connect_message.val)
                   /\ io_trace' = Append(io_trace, "write_connect")
                   /\ UNCHANGED result

\* lib.rs 151-164
ReadAuthLen ==
    /\ pc = "read_auth_len"
    /\ UNCHANGED <<codec_vars, session_vars, util_vars>>
    /\ io_trace' = Append(io_trace, "read_auth_len")
    /\ UNCHANGED <<arg_private_name, arg_membership, written, accepted, version, group_name_buf>>
    /\ \/ \E k \in StreamErrorKinds : HsFail(TransportError(k)) /\ UNCHANGED authname_len
       \/ \E b \in AuthLenBytes :
            /\ authname_len' = b
            /\ IF AuthLenError(b) # None
               THEN HsFail(AuthLenError(b)[1])
               ELSE pc' = "read_auth_list" /\ UNCHANGED result

\* lib.rs 168-176: the list is read, decoded and dropped
ReadAuthList ==
    /\ pc = "read_auth_list"
    /\ UNCHANGED <<codec_vars, session_vars, util_vars>>
    /\ io_trace' = Append(io_trace, "read_auth_list")
    /\ UNCHANGED <<arg_private_name, arg_membership, written, HsLocals>>
    /\ \/ \E k \in StreamErrorKinds : HsFail(TransportError(k))
       \/ pc' = "write_auth" /\ UNCHANGED result

\* lib.rs 179-193
WriteAuth ==
    /\ pc = "write_auth"
    /\ UNCHANGED <<codec_vars, session_vars, util_vars>>
    /\ io_trace' = Append(io_trace, "write_auth")
    /\ UNCHANGED <<arg_private_name, arg_membership, HsLocals>>
    /\ \/ \E k \in StreamErrorKinds : HsFail(TransportError(k)) /\ UNCHANGED written
       \/ /\ written' = Append(written, AuthChoice(authname_len))
          /\ pc' = "read_accept"
          /\ UNCHANGED result

\* a read of the accept byte that is tried again when the transport fails
ReadAccept_retry ==
    /\ pc = "read_accept"
    /\ UNCHANGED <<codec_vars, session_vars, util_vars>>
    /\ io_trace' = Append(io_trace, "read_accept")
    /\ UNCHANGED <<arg_private_name, arg_membership, written, authname_len, version,
                   group_name_buf>>
    /\ \/ UNCHANGED <<pc, result, accepted>>
       \/ \E b \in AcceptBytes :
            /\ accepted' = b
            /\ IF AcceptError(b) # None
               THEN HsFail(AcceptError(b)[1])
               ELSE pc' = "read_version" /\ UNCHANGED result

\* lib.rs 196-203
ReadAccept ==
    /\ pc = "read_accept"
    /\ UNCHANGED <<codec_vars, session_vars, util_vars>>
    /\ io_trace' = Append(io_trace, "read_accept")
    /\ UNCHANGED <<arg_private_name, arg_membership, written, authname_len, version,
                   group_name_buf>>
    /\ \/ \E k \in StreamErrorKinds : HsFail(TransportError(k)) /\ UNCHANGED accepted
       \/ \E b \in AcceptBytes :
            /\ accepted' = b
            /\ IF AcceptError(b) # None
               THEN HsFail(AcceptError(b)[1])
               ELSE pc' = "read_version" /\ UNCHANGED result

\* lib.rs 208-233: three read_byte calls, then the checks
ReadVersion ==
    /\ pc = "read_version"
    /\ UNCHANGED <<codec_vars, session_vars, util_vars>>
    /\ io_trace' = Append(io_trace, "read_version")
    /\ UNCHANGED <<arg_private_name, arg_membership, written, authname_len, accepted,
                   group_name_buf>>
    /\ \/ \E k \in StreamErrorKinds : HsFail(TransportError(k)) /\ UNCHANGED version
       \/ \E major \in MajorBytes, minor \in MinorBytes, patch \in PatchBytes :
            /\ version' = <<major, minor, patch>>
            /\ IF VersionError(<<major, minor, patch>>) # None
               THEN HsFail(VersionError(<<major, minor, patch>>)[1])
               ELSE pc' = "read_name_len" /\ UNCHANGED result

\* lib.rs 236-262: the length byte, then read_exact of that many bytes
ReadName ==
    /\ pc = "read_name_len"
    /\ UNCHANGED <<codec_vars, session_vars, util_vars>>
    /\ UNCHANGED <<arg_private_name, arg_membership, written, authname_len, accepted, version>>
    /\ \/ \E k \in StreamErrorKinds :
            /\ HsFail(TransportError(k))
            /\ io_trace' = Append(io_trace, "read_name_len")
            /\ UNCHANGED group_name_buf
       \/ \E buf \in DaemonNames :
            /\ NameLenError(Len(buf)) = None
            /\ io_trace' = io_trace \o <<"read_name_len", "read_name">>
            /\ \/ \E k \in StreamErrorKinds :
                    HsFail(TransportError(k)) /\ UNCHANGED group_name_buf
               \/ /\ group_name_buf' = buf
                  /\ result' = ConnectResult(buf, arg_membership)
                  /\ pc' = IF ConnectResult(buf, arg_membership).ok THEN "done" ELSE "failed"

HsNext ==
    \/ SendConnect
    \/ ReadAuthLen
    \/ ReadAuthList
    \/ WriteAuth
    \/ ReadAccept
    \/ ReadVersion
    \/ ReadName

----------------------------------------------------------------------------
(* lib.rs 267-302: SpreadClient::encode_message *)

\* lib.rs 279-282, 294-297: the encoded name, then one zero for each number
\* in range(name.len(), MAX_GROUP_NAME_LENGTH), name.len() being the length
\* of the name in memory (UTF-8)
PaddedName(name, buf) ==
    buf \o Rep(0, IF MAX_GROUP_NAME_LENGTH > StrLen(name)
                  THEN MAX_GROUP_NAME_LENGTH - StrLen(name) ELSE 0)

\* MessageCounts with the reserved word after the payload length
MessageCounts_reserved_last(num_groups, data_len) ==
    int_to_bytes(U32(num_groups)) \o int_to_bytes(U32(data_len)) \o int_to_bytes(U32(0))

\* lib.rs 284-286: group count, reserved word, payload length
MessageCounts(num_groups, data_len) ==
    int_to_bytes(U32(num_groups)) \o int_to_bytes(U32(0)) \o int_to_bytes(U32(data_len))

\* lib.rs 290-298: the group slots, or the first encoding error
RECURSIVE EncodeGroups(_)
EncodeGroups(gs) ==
    IF gs = <<>> THEN Ok(<<>>)
    ELSE LET group_buf == ISO_8859_1_encode(Head(gs))
         IN  IF ~group_buf.ok
             THEN Err(<<"Failed to encode group name", Head(gs)>>)
             ELSE LET rest == EncodeGroups(Tail(gs))
                  IN  IF rest.ok
                      THEN Ok(PaddedName(Head(gs), group_buf.val) \o rest.val)
                      ELSE rest

encode_message(service_type, name, gs, data) ==
    LET private_name_buf == ISO_8859_1_encode(name)
        group_bufs == EncodeGroups(gs)
    IN  IF ~private_name_buf.ok
        THEN Err(<<"Failed to encode private name", name>>)
        ELSE IF ~group_bufs.ok
        THEN group_bufs
        ELSE Ok(int_to_bytes(service_type)
                \o PaddedName(name, private_name_buf.val)
                \o MessageCounts(Len(gs), Len(data))
                \o group_bufs.val
                \o data)

----------------------------------------------------------------------------
(* lib.rs 389-455: SpreadClient::receive *)

\* lib.rs 69-74
SpreadMessage(service_type, gs, sender, data) ==
    [service_type |-> service_type, groups |-> gs, sender |-> sender, data |-> data]

\* a read that takes one byte more from the stream than it hands over
read_exact_one_more(input, n) ==
    IF Len(input) >= n
    THEN [ok |-> TRUE, val |-> SubSeq(input, 1, n), rest |-> SubSeq(input, n + 2, Len(input))]
    ELSE [ok |-> FALSE, err |-> TransportError("EndOfFile"), rest |-> <<>>]

\* stream.read_exact(n) on a stream that holds the bytes `input` and is then
\* closed: n bytes and the rest, or an error (the bytes read so far are lost)
read_exact(input, n) ==
    IF Len(input) >= n
    THEN [ok |-> TRUE, val |-> SubSeq(input, 1, n), rest |-> SubSeq(input, n + 1, Len(input))]
    ELSE [ok |-> FALSE, err |-> TransportError("EndOfFile"), rest |-> <<>>]

\* a header word that is byte-reversed when its own sentinel bits are set
HeaderWord_own_decision(is_correct_endianness, bytes) ==
    IF same_endianness(bytes_to_int(bytes))
    THEN bytes_to_int(bytes) ELSE flip_endianness(bytes_to_int(bytes))

\* lib.rs 399-402, 415-422: a header word, byte-reversed when the frame is not
\* in the receiver's byte order
HeaderWord(is_correct_endianness, bytes) ==
    IF is_correct_endianness THEN bytes_to_int(bytes) ELSE flip_endianness(bytes_to_int(bytes))

\* lib.rs 430-440: each 32-byte slot decoded
DecodeGroups(groups_vec, num_groups) ==
    [n \in 1..num_groups |->
        ISO_8859_1_decode(Slice(groups_vec, (n - 1) * MAX_GROUP_NAME_LENGTH,
                                (n - 1) * MAX_GROUP_NAME_LENGTH + MAX_GROUP_NAME_LENGTH)).val]

\* receive on a stream holding `input`; fail_at = 1, 2, 3 makes the transport
\* fail in the first, second or third read_exact, 0 leaves it alone. The
\* result, and the bytes left in the stream.
receive(input, fail_at) ==
    LET header == read_exact(input, MAX_GROUP_NAME_LENGTH + 16)
    IN  IF fail_at = 1 THEN [result |-> Err(TransportError("ConnectionReset")), rest |-> input]
        ELSE IF ~header.ok THEN [result |-> Err(header.err), rest |-> header.rest]
        ELSE
          LET header_vec == header.val
              is_correct_endianness == same_endianness(bytes_to_int(Slice(header_vec, 0, 4)))
              svc_type == HeaderWord(is_correct_endianness, Slice(header_vec, 0, 4))
              sender == ISO_8859_1_decode(Slice(header_vec, 4, 36)).val
              num_groups == HeaderWord(is_correct_endianness, Slice(header_vec, 36, 40))
              data_len == HeaderWord(is_correct_endianness, Slice(header_vec, 44, 48))
              groups_read == read_exact(header.rest,
                                        MAX_GROUP_NAME_LENGTH * AsUsize(num_groups))
          IN  IF fail_at = 2
              THEN [result |-> Err(TransportError("ConnectionReset")), rest |-> header.rest]
              ELSE IF ~groups_read.ok
              THEN [result |-> Err(groups_read.err), rest |-> groups_read.rest]
              ELSE
                LET gs == DecodeGroups(groups_read.val, AsUsize(num_groups))
                    data_read == read_exact(groups_read.rest, AsUsize(data_len))
                IN  IF fail_at = 3
                    THEN [result |-> Err(TransportError("ConnectionReset")),
                          rest |-> groups_read.rest]
                    ELSE IF ~data_read.ok
                    THEN [result |-> Err(data_read.err), rest |-> data_read.rest]
                    ELSE [result |-> Ok(SpreadMessage(svc_type, gs, sender, data_read.val)),
                          rest |-> data_read.rest]

----------------------------------------------------------------------------
(* encode_message and receive as functions of their inputs *)

\* the longest run of 'a' in a name given to encode_message
MaxCodecRun == 33
\* the most groups given to encode_message
MaxGroups == 2

\* "de", "ad", "foo"
Name_de == <<100, 101>>
Name_ad == <<97, 100>>
Name_foo == <<102, 111, 111>>

\* Sender names: runs of 'a' around the slot width, alone or followed by the
\* Latin-1 letter U+00E9; U+20AC, which Latin-1 cannot represent; "de"
SenderNames ==
    {Rep(97, n) \o t : n \in {0, 1} \cup ((MaxCodecRun - 2)..MaxCodecRun), t \in {<<>>, <<233>>}}
    \cup {<<8364>>, Name_de}

GroupNames ==
    {Rep(97, n) : n \in (MaxCodecRun - 1)..MaxCodecRun}
    \cup {<<233>>, <<8364>>, Name_ad, Name_foo}

RECURSIVE SeqsUpTo(_, _)
SeqsUpTo(S, n) ==
    IF n = 0 THEN {<<>>}
    ELSE LET shorter == SeqsUpTo(S, n - 1)
         IN  shorter \cup {Append(q, x) : q \in shorter, x \in S}

\* Service types: the four of ControlServiceType, 0x00000080 and 0xa0000080
\* (which carry bits of ENDIANTYPE)
ServiceTypes == {JoinMessage, LeaveMessage, KillMessage, ReliableMessage,
                 <<0, 128>>, <<40960, 128>>}

\* Payloads: "", "beef", and bytes that are no text
Payloads == {<<>>, <<98, 101, 101, 102>>, <<0, 255>>}

CodecInit ==
    /\ c_pc = "input"
    /\ c_in \in [service_type : ServiceTypes, sender : SenderNames,
                 groups : SeqsUpTo(GroupNames, MaxGroups), data : Payloads]
    /\ c_frame = <<>>
    /\ c_msg = <<>>

\* encode_message applied to the input
Encode ==
    /\ c_pc = "input"
    /\ c_frame' = encode_message(c_in.service_type, c_in.sender, c_in.groups, c_in.data)
    /\ c_pc' = "encoded"
    /\ UNCHANGED <<c_in, c_msg, hs_vars, session_vars, util_vars>>

\* receive applied to a stream that holds the encoded frame
Decode ==
    /\ c_pc = "encoded"
    /\ c_frame.ok
    /\ c_msg' = receive(c_frame.val, 0)
    /\ c_pc' = "decoded"
    /\ UNCHANGED <<c_in, c_frame, hs_vars, session_vars, util_vars>>

CodecNext == Encode \/ Decode

----------------------------------------------------------------------------
(* lib.rs 304-455: the operations of a session *)

\* lib.rs 308-313
kill_message(name) == encode_message(KillMessage, name, <<name>>, <<>>)

\* lib.rs 328-333
join_message(name, group_name) == encode_message(JoinMessage, name, <<group_name>>, <<>>)

\* leave_message with the tag of join
leave_message_join_tag(name, group_name) ==
    encode_message(JoinMessage, name, <<group_name>>, <<>>)

\* lib.rs 347-352
leave_message(name, group_name) == encode_message(LeaveMessage, name, <<group_name>>, <<>>)

\* lib.rs 370-375
multicast_message(name, gs, data) == encode_message(ReliableMessage, name, gs, data)

\* the most operations called on a session
MaxOps == 2

\* lib.rs 390-395: a frame as the daemon lays it out, its three words given
\* as the bytes on the wire
WireFrame(svc_type, sender, gs, num_groups, data_len, data) ==
    svc_type \o sender \o Rep(0, MAX_GROUP_NAME_LENGTH - Len(sender))
    \o num_groups \o <<0, 0, 0, 0>> \o data_len
    \o Concat([i \in 1..Len(gs) |-> gs[i] \o Rep(0, MAX_GROUP_NAME_LENGTH - Len(gs[i]))])
    \o data

\* "#a#b", a private name as a daemon assigns it
Name_hash_a_b == <<35, 97, 35, 98>>

\* a reliable message from #a#b to foo, "beef", words most significant byte first
FrameBE == WireFrame(<<0, 0, 0, 2>>, Name_hash_a_b, <<Name_foo>>, <<0, 0, 0, 1>>,
                     <<0, 0, 0, 4>>, <<98, 101, 101, 102>>)

\* a reliable message from #a#b to foo and ad, "be", from a daemon of the other
\* byte order: words least significant byte first, ENDIANTYPE set in the
\* service type (0x80000082)
FrameLE == WireFrame(<<130, 0, 0, 128>>, Name_hash_a_b, <<Name_foo, Name_ad>>, <<2, 0, 0, 0>>,
                     <<2, 0, 0, 0>>, <<98, 101>>)

\* What the daemon sends before it closes the stream
StreamsIn == {<<>>, FrameBE, FrameLE \o FrameBE, FrameBE \o FrameLE, SubSeq(FrameBE, 1, 20),
              SubSeq(FrameBE, 1, 60), SubSeq(FrameBE, 1, 82)}

\* Names a session may have: any string the daemon sent as UTF-8
SessionNames == {Name_de, Name_hash_a_b, <<233>>, <<8364>>}

\* Group names given to join and leave
JoinNames == {Name_foo, <<8364>>}

\* Arguments of multicast
MulticastGroups == {<<>>, <<Name_foo>>, <<Name_foo, Name_ad>>, <<Name_foo, <<8364>>>>}
MulticastPayloads == {<<>>, <<98, 101, 101, 102>>}

Operation(op, names, data) == [op |-> op, names |-> names, data |-> data]

SessionInit ==
    /\ private_name \in SessionNames
    /\ groups = <<>>
    /\ stream_out = <<>>
    /\ stream_in \in StreamsIn
    /\ last_op = Operation("none", <<>>, <<>>)
    /\ last_result = Ok(<<>>)
    /\ nops = 0
    /\ received = <<>>

\* An operation that encodes a message and writes it with one write_all:
\* Err of the encoding, Err of the transport, or the message written. stream_out
\* holds the writes that returned Ok.
WriteMessage(message, desc) ==
    IF ~message.ok
    THEN /\ last_result' = Err(IoError("OtherIoError", desc, Some(message.err)))
         /\ UNCHANGED stream_out
    ELSE \/ \E k \in StreamErrorKinds :
              /\ last_result' = Err(TransportError(k))
              /\ UNCHANGED stream_out
         \/ /\ last_result' = Ok(<<>>)
            /\ stream_out' = Append(stream_out, message.val)

\* a disconnect that also shuts the stream: nothing more can be read from it
Disconnect_closes_stream ==
    /\ nops < MaxOps
    /\ nops' = nops + 1
    /\ last_op' = Operation("disconnect", <<>>, <<>>)
    /\ WriteMessage(kill_message(private_name), "Disconnection failed")
    /\ stream_in' = <<>>
    /\ UNCHANGED <<private_name, groups, received, hs_vars, codec_vars, util_vars>>

\* lib.rs 306-321: the peer name is asked for (for the log) before the write
Disconnect ==
    /\ nops < MaxOps
    /\ nops' = nops + 1
    /\ last_op' = Operation("disconnect", <<>>, <<>>)
    /\ \/ WriteMessage(kill_message(private_name), "Disconnection failed")
       \/ /\ kill_message(private_name).ok
          /\ \E k \in StreamErrorKinds : last_result' = Err(TransportError(k))
          /\ UNCHANGED stream_out
    /\ UNCHANGED <<private_name, groups, stream_in, received, hs_vars, codec_vars, util_vars>>

\* lib.rs 327-343
Join ==
    /\ nops < MaxOps
    /\ nops' = nops + 1
    /\ \E group_name \in JoinNames :
         /\ last_op' = Operation("join", <<group_name>>, <<>>)
         /\ WriteMessage(join_message(private_name, group_name), "Group join failed")
         /\ groups' = IF last_result'.ok THEN Append(groups, group_name) ELSE groups
    /\ UNCHANGED <<private_name, stream_in, received, hs_vars, codec_vars, util_vars>>

\* a leave that writes its frame and keeps no record of the name
Leave_untracked ==
    /\ nops < MaxOps
    /\ nops' = nops + 1
    /\ \E group_name \in JoinNames :
         /\ last_op' = Operation("leave", <<group_name>>, <<>>)
         /\ WriteMessage(leave_message(private_name, group_name), "Group leave failed")
    /\ UNCHANGED <<private_name, groups, stream_in, received, hs_vars, codec_vars, util_vars>>

\* lib.rs 346-362
Leave ==
    /\ nops < MaxOps
    /\ nops' = nops + 1
    /\ \E group_name \in JoinNames :
         /\ last_op' = Operation("leave", <<group_name>>, <<>>)
         /\ WriteMessage(leave_message(private_name, group_name), "Group leave failed")
         /\ groups' = IF last_result'.ok THEN Append(groups, group_name) ELSE groups
    /\ UNCHANGED <<private_name, stream_in, received, hs_vars, codec_vars, util_vars>>

\* a multicast that records the groups it sent to
Multicast_tracks ==
    /\ nops < MaxOps
    /\ nops' = nops + 1
    /\ \E gs \in MulticastGroups, data \in MulticastPayloads :
         /\ last_op' = Operation("multicast", gs, data)
         /\ WriteMessage(multicast_message(private_name, gs, data), "Multicast failed")
         /\ groups' = IF last_result'.ok THEN groups \o gs ELSE groups
    /\ UNCHANGED <<private_name, stream_in, received, hs_vars, codec_vars, util_vars>>

\* lib.rs 365-384
Multicast ==
    /\ nops < MaxOps
    /\ nops' = nops + 1
    /\ \E gs \in MulticastGroups, data \in MulticastPayloads :
         /\ last_op' = Operation("multicast", gs, data)
         /\ WriteMessage(multicast_message(private_name, gs, data), "Multicast failed")
    /\ UNCHANGED <<private_name, groups, stream_in, received, hs_vars, codec_vars, util_vars>>

\* lib.rs 389-455
Receive ==
    /\ nops < MaxOps
    /\ nops' = nops + 1
    /\ last_op' = Operation("receive", <<>>, <<>>)
    /\ \E fail_at \in 0..3 :
         /\ last_result' = receive(stream_in, fail_at).result
         /\ stream_in' = receive(stream_in, fail_at).rest
         /\ received' = IF receive(stream_in, fail_at).result.ok
                        THEN Append(received, receive(stream_in, fail_at).result.val)
                        ELSE received
    /\ UNCHANGED <<private_name, groups, stream_out, hs_vars, codec_vars, util_vars>>

SessionNext == Disconnect \/ Join \/ Leave \/ Multicast \/ Receive

----------------------------------------------------------------------------
(* util.rs 6-40: the functions applied to a word *)

\* Halves of the words tried: 0x0000, 0x0001, 0x0002, 0x0080, 0x0082, 0x00ff,
\* 0x0100, 0x1234, 0x5678, 0x8000, 0x8080, 0xa000, 0xff00, 0xffff, 0x0004
WordHalves == {0, 1, 2, 4, 128, 130, 255, 256, 4660, 22136, 32768, 32896, 40960, 65280, 65535}

UtilIdle ==
    /\ u_pc = "idle"
    /\ u_x = <<0, 0>>
    /\ u_bytes = <<>>
    /\ u_int = <<0, 0>>
    /\ u_flip = <<0, 0>>
    /\ u_flip2 = <<0, 0>>
    /\ u_same = <<>>

UtilInit ==
    /\ u_pc = "input"
    /\ u_x \in WordHalves \X WordHalves
    /\ u_bytes = <<>>
    /\ u_int = <<0, 0>>
    /\ u_flip = <<0, 0>>
    /\ u_flip2 = <<0, 0>>
    /\ u_same = <<>>

\* util.rs 7-14
IntToBytes ==
    /\ u_pc = "input"
    /\ u_bytes' = int_to_bytes(u_x)
    /\ u_pc' = "bytes"
    /\ UNCHANGED <<u_x, u_int, u_flip, u_flip2, u_same, hs_vars, codec_vars, session_vars>>

\* util.rs 17-24
BytesToInt ==
    /\ u_pc = "bytes"
    /\ u_int' = bytes_to_int(u_bytes)
    /\ u_pc' = "int"
    /\ UNCHANGED <<u_x, u_bytes, u_flip, u_flip2, u_same, hs_vars, codec_vars, session_vars>>

\* util.rs 33-40
FlipEndianness ==
    /\ u_pc = "int"
    /\ u_flip' = flip_endianness(u_x)
    /\ u_pc' = "flipped"
    /\ UNCHANGED <<u_x, u_bytes, u_int, u_flip2, u_same, hs_vars, codec_vars, session_vars>>

\* util.rs 33-40, on the flipped word
FlipBack ==
    /\ u_pc = "flipped"
    /\ u_flip2' = flip_endianness(u_flip)
    /\ u_pc' = "flipped_back"
    /\ UNCHANGED <<u_x, u_bytes, u_int, u_flip, u_same, hs_vars, codec_vars, session_vars>>

\* util.rs 28-30, on the word and on the flipped word
SameEndianness ==
    /\ u_pc = "flipped_back"
    /\ u_same' = <<same_endianness(u_x), same_endianness(u_flip)>>
    /\ u_pc' = "done"
    /\ UNCHANGED <<u_x, u_bytes, u_int, u_flip, u_flip2, hs_vars, codec_vars, session_vars>>

UtilNext == IntToBytes \/ BytesToInt \/ FlipEndianness \/ FlipBack \/ SameEndianness

----------------------------------------------------------------------------
(* Specifications *)

CodecIdle == c_pc = "idle" /\ c_in = <<>> /\ c_frame = <<>> /\ c_msg = <<>>

SessionIdle ==
    /\ private_name = <<>>
    /\ groups = <<>>
    /\ stream_out = <<>>
    /\ stream_in = <<>>
    /\ last_op = <<>>
    /\ last_result = <<>>
    /\ nops = 0
    /\ received = <<>>

\* One call of connect
Init == HsInit /\ CodecIdle /\ SessionIdle /\ UtilIdle
Next == HsNext
Spec == Init /\ [][Next]_vars

HsIdle ==
    /\ pc = "idle"
    /\ arg_private_name = <<>>
    /\ arg_membership = FALSE
    /\ written = <<>>
    /\ io_trace = <<>>
    /\ authname_len = NotRead
    /\ accepted = NotRead
    /\ version = <<>>
    /\ group_name_buf = <<>>
    /\ result = Err(IoError("", "", None))

\* encode_message on an input, then receive on the frame
InitCodec == CodecInit /\ HsIdle /\ SessionIdle /\ UtilIdle
NextCodec == CodecNext
SpecCodec == InitCodec /\ [][NextCodec]_vars

\* Operations on a connected session
InitSession == SessionInit /\ HsIdle /\ CodecIdle /\ UtilIdle
NextSession == SessionNext
SpecSession == InitSession /\ [][NextSession]_vars

\* The functions of util.rs on a word
InitUtil == UtilInit /\ HsIdle /\ CodecIdle /\ SessionIdle
NextUtil == UtilNext
SpecUtil == InitUtil /\ [][NextUtil]_vars

----------------------------------------------------------------------------
(* Claims about connect, checked under Spec *)

\* the number a decimal string denotes
RECURSIVE ParseNat(_)
ParseNat(s) == IF s = <<>> THEN 0
               ELSE ParseNat(SubSeq(s, 1, Len(s) - 1)) * 10 + (s[Len(s)] - 48)

ParseInt(s) == IF s # <<>> /\ s[1] = 45 THEN 0 - ParseNat(Tail(s)) ELSE ParseNat(s)

HandshakeSteps == <<"write_connect", "read_auth_len", "read_auth_list", "write_auth",
                    "read_accept", "read_version", "read_name_len", "read_name">>

\* C1: connect returns a session only when every handshake step succeeded (all
\* eight I/O steps were performed once, in order, the auth offer was not a
\* refusal, the accept byte was 1, the version was supported, the name was
\* UTF-8); the session's private_name is the name the daemon sent, and its
\* groups are empty.
C1_SessionOnlyAfterFullHandshake ==
    /\ (pc = "done") = result.ok
    /\ result.ok =>
         /\ io_trace = HandshakeSteps
         /\ Len(written) = 2
         /\ authname_len \in 0..127
         /\ accepted = 1
         /\ version[1] * 10000 + version[2] * 100 + version[3] >= 30100
         /\ Utf8(result.val.private_name) = group_name_buf
         /\ result.val.groups = <<>>

\* the daemon assigned "abc" to a caller that asked for another name
C1_Witness ==
    /\ pc = "done"
    /\ result.ok
    /\ group_name_buf = <<97, 98, 99>>
    /\ result.val.private_name = <<97, 98, 99>>
    /\ arg_private_name = <<97, 233>>

\* C2: an auth-offer length byte L >= 128 makes connect fail with
\* ConnectionRefused carrying the decimal of L - 256, and nothing is written
\* after the connect message.
C2_AuthLenRefused ==
    (authname_len # NotRead /\ authname_len >= 128) =>
        /\ pc = "failed"
        /\ ~result.ok
        /\ result.err.kind = "ConnectionRefused"
        /\ result.err.detail # None
        /\ ParseInt(result.err.detail[1]) = authname_len - 256
        /\ Len(written) = 1
        /\ io_trace = <<"write_connect", "read_auth_len">>

\* the spec's case: L = 130 gives the code -126
C2_Witness ==
    /\ authname_len = 130
    /\ pc = "failed"
    /\ result.err.kind = "ConnectionRefused"
    /\ result.err.detail = Some(<<45, 49, 50, 54>>)

\* C3: an accept byte other than 1 makes connect fail with ConnectionRefused
\* carrying the decimal of byte - 256; the byte 1 lets connect go on to the
\* version check.
C3_AcceptRefused ==
    accepted # NotRead =>
        IF accepted = 1
        THEN "read_version" \in {io_trace[i] : i \in 1..Len(io_trace)}
        ELSE /\ pc = "failed"
             /\ result.err.kind = "ConnectionRefused"
             /\ ParseInt(result.err.detail[1]) = accepted - 256

C5_AuthChoiceLength ==
    Len(written) >= 2 =>
        /\ Len(written[2]) = 91
        /\ written[2] = <<78, 85, 76, 76>> \o Rep(0, 87)

\* C6: the connect message is [4, 4, 0, flags, name_len] and the name bytes,
\* name_len being their number, the name being the requested one, cut to its
\* first 10 characters when it is longer.
C6_ConnectMessage ==
    Len(written) >= 1 =>
        LET name == IF Len(arg_private_name) <= 10 THEN arg_private_name
                    ELSE SubSeq(arg_private_name, 1, 10)
            m == written[1]
        IN  /\ Len(m) >= 5
            /\ SubSeq(m, 1, 4) = <<4, 4, 0, IF arg_membership THEN 16 ELSE 0>>
            /\ m[5] = Len(m) - 5
            /\ SubSeq(m, 6, Len(m)) = name

----------------------------------------------------------------------------
(* Claims about encode_message and receive, checked under SpecCodec *)

Encoded == c_pc \in {"encoded", "decoded"} /\ c_frame.ok

\* the four bytes of a number below 2^31, most significant first
BE32(n) == <<n \div 16777216, (n \div 65536) % 256, (n \div 256) % 256, n % 256>>

\* the four bytes of a word <<hi, lo>>, most significant first
BEWord(w) == <<w[1] \div 256, w[1] % 256, w[2] \div 256, w[2] % 256>>

\* bytes is the Latin-1 name followed by zeros only
IsSlot(bytes, name) ==
    /\ Len(bytes) >= Len(name)
    /\ SubSeq(bytes, 1, Len(name)) = name
    /\ \A i \in (Len(name) + 1)..Len(bytes) : bytes[i] = 0

\* bytes is one slot for each name, in order
RECURSIVE AreSlots(_, _)
AreSlots(bytes, names) ==
    IF names = <<>> THEN bytes = <<>>
    ELSE \E k \in Len(Head(names))..Len(bytes) :
            /\ IsSlot(SubSeq(bytes, 1, k), Head(names))
            /\ AreSlots(SubSeq(bytes, k + 1, Len(bytes)), Tail(names))

\* frame is: tag, a slot of sender, the number of names, a zero word, the
\* length of data, a slot for each name in order, data
IsFrame(frame, tag, sender, names, data) ==
    /\ Len(frame) >= 16 + Len(data)
    /\ SubSeq(frame, 1, 4) = tag
    /\ SubSeq(frame, Len(frame) - Len(data) + 1, Len(frame)) = data
    /\ LET body == SubSeq(frame, 5, Len(frame) - Len(data))
       IN  \E k \in Len(sender)..(Len(body) - 12) :
              /\ IsSlot(SubSeq(body, 1, k), sender)
              /\ SubSeq(body, k + 1, k + 12)
                   = BE32(Len(names)) \o <<0, 0, 0, 0>> \o BE32(Len(data))
              /\ AreSlots(SubSeq(body, k + 13, Len(body)), names)

\* the name without its trailing zeros
RECURSIVE Trim(_)
Trim(name) == IF name # <<>> /\ name[Len(name)] = 0
              THEN Trim(SubSeq(name, 1, Len(name) - 1)) ELSE name

\* C7: every encoded frame is 48 + 32 * (number of groups) + (payload length)
\* bytes long, each name being in a slot of exactly 32 bytes.
C7_FrameLength ==
    Encoded => Len(c_frame.val) = 48 + 32 * Len(c_in.groups) + Len(c_in.data)

\* C8: an encoded frame is, in this order: the service type (4 bytes, most
\* significant first), the sender's slot, the number of groups (4 bytes), a
\* zero word, the payload length (4 bytes), the group slots in the order
\* given, the payload.
C8_FieldOrder ==
    Encoded => IsFrame(c_frame.val, BEWord(c_in.service_type), c_in.sender, c_in.groups,
                       c_in.data)

\* the case of the test should_encode_service_message
C8_Witness ==
    /\ c_pc = "encoded"
    /\ c_in = [service_type |-> <<1, 0>>, sender |-> <<100, 101>>,
               groups |-> << <<97, 100>> >>, data |-> <<98, 101, 101, 102>>]
    /\ c_frame.ok
    /\ c_frame.val = <<0, 1, 0, 0, 100, 101>> \o Rep(0, 30)
                     \o <<0, 0, 0, 1, 0, 0, 0, 0, 0, 0, 0, 4, 97, 100>> \o Rep(0, 30)
                     \o <<98, 101, 101, 102>>

\* C10: receive on the bytes encode_message produced, for a sender of at most
\* 32 bytes, returns a message with the same sender, groups and payload, the
\* trailing zeros of the names aside.
C10_RoundTrip ==
    (c_pc = "decoded" /\ StrLen(c_in.sender) <= 32) =>
        /\ c_msg.result.ok
        /\ Trim(c_msg.result.val.sender) = c_in.sender
        /\ Len(c_msg.result.val.groups) = Len(c_in.groups)
        /\ \A i \in 1..Len(c_in.groups) : Trim(c_msg.result.val.groups[i]) = c_in.groups[i]
        /\ c_msg.result.val.data = c_in.data

----------------------------------------------------------------------------
(* Claims about the operations of a session, checked under SpecSession *)

\* the frame an operation is to write: its tag, its groups, its payload
ExpectedTag(op) ==
    IF op.op = "join" THEN <<0, 1, 0, 0>>
    ELSE IF op.op = "leave" THEN <<0, 2, 0, 0>>
    ELSE IF op.op = "multicast" THEN <<0, 0, 0, 2>>
    ELSE <<0, 4, 0, 0>>

ExpectedGroups(op) == IF op.op = "disconnect" THEN <<private_name>> ELSE op.names

\* C9: a join, leave, multicast or disconnect that returns Ok has written one
\* frame with one write: sender private_name, tag 0x00010000 and groups [name]
\* for join, 0x00020000 and [name] for leave, 0x00000002 with the given groups
\* and payload for multicast, 0x00040000 and [private_name] for disconnect, the
\* payload empty for all but multicast; one that returns an error has written
\* nothing.
C9_OneFramePerOperation ==
    [][(nops' = nops + 1 /\ last_op'.op \in {"join", "leave", "multicast", "disconnect"}) =>
         IF last_result'.ok
         THEN /\ Len(stream_out') = Len(stream_out) + 1
              /\ SubSeq(stream_out', 1, Len(stream_out)) = stream_out
              /\ IsFrame(stream_out'[Len(stream_out')], ExpectedTag(last_op'), private_name,
                         ExpectedGroups(last_op'), last_op'.data)
              /\ last_op'.op # "multicast" => last_op'.data = <<>>
         ELSE stream_out' = stream_out]_vars

\* a session named "de" left foo: one frame, tagged 0x00020000, was written
C9_Witness ==
    /\ private_name = <<100, 101>>
    /\ last_op = Operation("leave", << <<102, 111, 111>> >>, <<>>)
    /\ last_result.ok
    /\ stream_out = << <<0, 2, 0, 0, 100, 101>> \o Rep(0, 30)
                       \o <<0, 0, 0, 1, 0, 0, 0, 0, 0, 0, 0, 0, 102, 111, 111>> \o Rep(0, 29) >>

\* C11: the sender and every group name of a message receive returned are
\* without the zero padding of their 32-byte slots.
C11_NamesTrimmed ==
    (last_op.op = "receive" /\ last_result.ok) =>
        /\ Trim(last_result.val.sender) = last_result.val.sender
        /\ \A i \in 1..Len(last_result.val.groups) :
              Trim(last_result.val.groups[i]) = last_result.val.groups[i]

\* the stream holds a header whose leading word, read most significant byte
\* first, has a bit of 0x80000080 set
LeadingWordSwapped(stream) == stream[1] >= 128 \/ stream[4] >= 128

\* the word at bytes at+1..at+4 of the stream, byte-reversed or not
WordAt(stream, at, swapped) ==
    IF swapped
    THEN <<stream[at + 4] * 256 + stream[at + 3], stream[at + 2] * 256 + stream[at + 1]>>
    ELSE <<stream[at + 1] * 256 + stream[at + 2], stream[at + 3] * 256 + stream[at + 4]>>

\* the stream holds all the bytes of a frame whose counts are read with the
\* decision of its leading word
HoldsFrame(stream) ==
    /\ Len(stream) >= 48
    /\ WordAt(stream, 36, LeadingWordSwapped(stream))[1] = 0
    /\ WordAt(stream, 44, LeadingWordSwapped(stream))[1] = 0
    /\ Len(stream) >= 48 + 32 * WordAt(stream, 36, LeadingWordSwapped(stream))[2]
                         + WordAt(stream, 44, LeadingWordSwapped(stream))[2]

\* C12: every receive takes one decision from the leading word of the frame
\* it reads, (word & 0x80000080) # 0 with the word read most significant byte
\* first, and reads service_type, the group count and the payload length all
\* byte-reversed or all as they are, whatever the frame before was.
C12_OneDecisionPerFrame ==
    [][(nops' = nops + 1 /\ last_op'.op = "receive" /\ HoldsFrame(stream_in)) =>
         LET swapped == LeadingWordSwapped(stream_in)
         IN  IF last_result'.ok
             THEN /\ last_result'.val.service_type = WordAt(stream_in, 0, swapped)
                  /\ <<0, Len(last_result'.val.groups)>> = WordAt(stream_in, 36, swapped)
                  /\ <<0, Len(last_result'.val.data)>> = WordAt(stream_in, 44, swapped)
             ELSE last_result'.err.kind = "ConnectionReset"]_vars

\* a byte-reversed frame (0x80000082, two groups, two bytes) was received, then
\* one in the receiver's order (0x00000002, one group, four bytes)
C12_Witness ==
    /\ Len(received) = 2
    /\ received[1].service_type = <<32768, 130>>
    /\ Len(received[1].groups) = 2
    /\ received[1].data = <<98, 101>>
    /\ received[2].service_type = <<0, 2>>
    /\ Len(received[2].groups) = 1
    /\ received[2].data = <<98, 101, 101, 102>>

----------------------------------------------------------------------------
(* Claims about the functions of util.rs, checked under SpecUtil *)

\* C13: for every 32-bit x, int_to_bytes(x) is the four bytes of x, most
\* significant first, bytes_to_int of them is x again, and flipping x twice
\* gives x.
C13_RoundTrips ==
    /\ u_pc \in {"bytes", "int", "flipped", "flipped_back", "done"} => u_bytes = BEWord(u_x)
    /\ u_pc \in {"int", "flipped", "flipped_back", "done"} => u_int = u_x
    /\ u_pc \in {"flipped_back", "done"} => u_flip2 = u_x

\* 0x12345678: bytes 0x12 0x34 0x56 0x78, read back, flipped to 0x78563412 and
\* flipped back
C13_Witness ==
    /\ u_pc = "done"
    /\ u_x = <<4660, 22136>>
    /\ u_bytes = <<18, 52, 86, 120>>
    /\ u_int = <<4660, 22136>>
    /\ u_flip = <<30806, 13330>>
    /\ u_flip2 = <<4660, 22136>>

\* C20: for every 32-bit x, same_endianness(flip_endianness(x)) =
\* same_endianness(x); so when the leading word of a frame calls for the flip,
\* the flipped word, which receive stores as service_type, still has a bit of
\* 0x80000080 set.
C20_DecisionInvariantUnderFlip ==
    u_pc = "done" =>
        /\ u_same[1] = u_same[2]
        /\ (u_x[1] >= 32768 \/ u_x[2] % 256 >= 128) =>
              /\ ~u_same[1]
              /\ HeaderWord(u_same[1], u_bytes) = u_flip
              /\ (u_flip[1] >= 32768 \/ u_flip[2] % 256 >= 128)

\* 0x00000080 flipped is 0x80000000: neither is in the receiver's byte order
C20_Witness ==
    /\ u_pc = "done"
    /\ u_x = <<0, 128>>
    /\ u_flip = <<32768, 0>>
    /\ u_same = <<FALSE, FALSE>>

----------------------------------------------------------------------------
(* Claims about the state of a session, checked under SpecSession *)

\* C14: the session's groups start empty; a join or leave that returns Ok
\* appends its name to them, whether or not the name is there already, and one
\* that returns an error leaves them as they were: groups is the names of the
\* calls that succeeded, in call order.
C14_GroupsAreSuccessfulCalls ==
    /\ [](nops = 0 => groups = <<>>)
    /\ [][(nops' = nops + 1 /\ last_op'.op \in {"join", "leave"}) =>
            groups' = IF last_result'.ok
                      THEN Append(groups, last_op'.names[1]) ELSE groups]_vars

\* join("foo") then leave("foo"), both written: foo is tracked twice
C14_Witness ==
    /\ last_op = Operation("leave", <<Name_foo>>, <<>>)
    /\ last_result.ok
    /\ Len(stream_out) = 2
    /\ SubSeq(stream_out[1], 1, 4) = <<0, 1, 0, 0>>
    /\ groups = <<Name_foo, Name_foo>>

\* the string has a char Latin-1 cannot represent
Unrepresentable(s) == \E i \in 1..Len(s) : s[i] > 255

\* C15: a join, leave, multicast or disconnect of a session whose private
\* name, or one of whose group names, Latin-1 cannot represent returns an
\* encoding error (kind OtherIoError, the message of the failure as detail),
\* writes nothing and changes nothing of the session.
C15_UnencodableName ==
    [][(/\ nops' = nops + 1
        /\ last_op'.op \in {"join", "leave", "multicast", "disconnect"}
        /\ \/ Unrepresentable(private_name)
           \/ \E i \in 1..Len(last_op'.names) : Unrepresentable(last_op'.names[i])) =>
         /\ ~last_result'.ok
         /\ last_result'.err.kind = "OtherIoError"
         /\ last_result'.err.detail # None
         /\ last_result'.err.detail[1][1]
               \in {"Failed to encode private name", "Failed to encode group name"}
         /\ stream_out' = stream_out
         /\ groups' = groups
         /\ private_name' = private_name
         /\ stream_in' = stream_in]_vars

\* "de" joined U+20AC after having joined foo: an encoding error, foo's frame
\* alone on the stream, foo alone tracked
C15_Witness ==
    /\ private_name = Name_de
    /\ last_op = Operation("join", << <<8364>> >>, <<>>)
    /\ ~last_result.ok
    /\ last_result.err = IoError("OtherIoError", "Group join failed",
                                 Some(<<"Failed to encode group name", <<8364>>>>))
    /\ Len(stream_out) = 1
    /\ groups = <<Name_foo>>

\* a Kill frame has been written: a disconnect returned Ok
Disconnected == \E i \in 1..Len(stream_out) : SubSeq(stream_out[i], 1, 4) = <<0, 4, 0, 0>>

\* C16: a disconnect changes nothing but the bytes written: the stream still
\* holds what it held, the session keeps its name and groups. After it, each
\* of join, leave, multicast and disconnect can still write its frame and
\* return Ok, a receive of a frame the stream holds fails only when the
\* transport does, and every operation that returns Ok has written its one
\* frame or read its message as before.
C16_DisconnectOnlyWrites ==
    [][/\ (Disconnected /\ nops < MaxOps /\ ~Unrepresentable(private_name)) =>
            /\ ENABLED (Join /\ last_result'.ok /\ Len(stream_out') = Len(stream_out) + 1)
            /\ ENABLED (Leave /\ last_result'.ok /\ Len(stream_out') = Len(stream_out) + 1)
            /\ ENABLED (Multicast /\ last_result'.ok
                          /\ Len(stream_out') = Len(stream_out) + 1)
            /\ ENABLED (Disconnect /\ last_result'.ok
                          /\ Len(stream_out') = Len(stream_out) + 1)
       /\ (nops' = nops + 1 /\ last_op'.op = "disconnect") =>
            /\ private_name' = private_name
            /\ groups' = groups
            /\ stream_in' = stream_in
            /\ received' = received
            /\ \/ stream_out' = stream_out
               \/ /\ last_result'.ok
                  /\ Len(stream_out') = Len(stream_out) + 1
                  /\ SubSeq(stream_out', 1, Len(stream_out)) = stream_out
       /\ (Disconnected /\ nops' = nops + 1 /\ last_op'.op = "receive"
             /\ HoldsFrame(stream_in) /\ ~last_result'.ok) =>
            last_result'.err.kind = "ConnectionReset"
       /\ (Disconnected /\ nops' = nops + 1 /\ last_result'.ok) =>
            IF last_op'.op = "receive"
            THEN /\ stream_out' = stream_out
                 /\ HoldsFrame(stream_in)
                 /\ last_result'.val.data
                      = SubSeq(stream_in, Len(stream_in) - Len(stream_in')
                                          - Len(last_result'.val.data) + 1,
                               Len(stream_in) - Len(stream_in'))
            ELSE /\ stream_in' = stream_in
                 /\ IsFrame(stream_out'[Len(stream_out')], ExpectedTag(last_op'),
                            private_name, ExpectedGroups(last_op'), last_op'.data)]_vars

\* after a disconnect that wrote its Kill frame, a receive returned the frame
\* the stream held
C16_Witness ==
    /\ Len(stream_out) = 1
    /\ SubSeq(stream_out[1], 1, 4) = <<0, 4, 0, 0>>
    /\ last_op.op = "receive"
    /\ last_result.ok
    /\ last_result.val.data = <<98, 101, 101, 102>>
    /\ received = <<last_result.val>>

\* the stream ends before the header, the group slots or the payload of the
\* frame it begins with
EndsIn(stream) ==
    IF Len(stream) < 48 THEN "header"
    ELSE IF WordAt(stream, 36, LeadingWordSwapped(stream))[1] # 0
            \/ Len(stream) < 48 + 32 * WordAt(stream, 36, LeadingWordSwapped(stream))[2]
         THEN "groups"
    ELSE IF ~HoldsFrame(stream) THEN "payload"
    ELSE "nowhere"

\* C18: a receive, multicast or disconnect, whatever it returns, leaves
\* private_name and groups as they were; a receive on a stream that ends in the
\* header, the group slots or the payload returns an error, and an error
\* carries no message and none is handed on; no operation changes
\* private_name.
C18_FrameOfSessionState ==
    [][nops' = nops + 1 =>
         /\ private_name' = private_name
         /\ last_op'.op \in {"receive", "multicast", "disconnect"} => groups' = groups
         /\ last_op'.op = "receive" =>
              /\ EndsIn(stream_in) # "nowhere" => ~last_result'.ok
              /\ ~last_result'.ok => /\ DOMAIN last_result' = {"ok", "err"}
                                     /\ received' = received
         /\ last_op'.op # "receive" => received' = received]_vars

\* after join("foo"), the transport failed when receive read the payload,
\* header and group slots taken: receive returned the transport's error, foo is
\* still the one group tracked
C18_Witness ==
    /\ last_op.op = "receive"
    /\ ~last_result.ok
    /\ last_result.err.kind = "ConnectionReset"
    /\ stream_in = <<98, 101, 101, 102>>
    /\ groups = <<Name_foo>>
    /\ received = <<>>
    /\ private_name = Name_hash_a_b

\* C19: a receive on a stream that holds a whole frame returns it unless the
\* transport fails; a receive that returns Ok has taken exactly
\* 48 + 32 * group_count + data_len bytes from the stream, the counts read with
\* the frame's byte-order decision, and returns group_count groups, those of
\* the slots in order, and the data_len bytes after them; what follows the
\* frame is left in the stream for the next receive.
C19_ExactConsumption ==
    [][(nops' = nops + 1 /\ last_op'.op = "receive") =>
         /\ (HoldsFrame(stream_in) /\ ~last_result'.ok) =>
               last_result'.err.kind = "ConnectionReset"
         /\ last_result'.ok =>
              /\ HoldsFrame(stream_in)
              /\ LET group_count == WordAt(stream_in, 36, LeadingWordSwapped(stream_in))[2]
                     data_len == WordAt(stream_in, 44, LeadingWordSwapped(stream_in))[2]
                     msg == last_result'.val
                 IN  /\ Len(stream_in) - Len(stream_in') = 48 + 32 * group_count + data_len
                     /\ stream_in' = SubSeq(stream_in, 48 + 32 * group_count + data_len + 1,
                                            Len(stream_in))
                     /\ Trim(msg.sender) = Trim(SubSeq(stream_in, 5, 36))
                     /\ Len(msg.groups) = group_count
                     /\ \A i \in 1..group_count :
                           Trim(msg.groups[i])
                             = Trim(SubSeq(stream_in, 48 + 32 * (i - 1) + 1, 48 + 32 * i))
                     /\ msg.data = SubSeq(stream_in, 48 + 32 * group_count + 1,
                                          48 + 32 * group_count + data_len)
                     /\ received' = Append(received, msg)]_vars

\* the stream held "beef" to foo followed by "be" to foo and ad: two receives
\* returned them in that order and emptied the stream
C19_Witness ==
    /\ stream_in = <<>>
    /\ Len(received) = 2
    /\ received[1].data = <<98, 101, 101, 102>>
    /\ Len(received[1].groups) = 1
    /\ Trim(received[1].groups[1]) = Name_foo
    /\ received[2].data = <<98, 101>>
    /\ Len(received[2].groups) = 2
    /\ Trim(received[2].groups[1]) = Name_foo
    /\ Trim(received[2].groups[2]) = Name_ad

----------------------------------------------------------------------------
(* Claims about the order of the handshake, checked under Spec *)

\* the number of writes among the steps
RECURSIVE Writes(_)
Writes(steps) ==
    IF steps = <<>> THEN 0
    ELSE (IF Head(steps) \in {"write_connect", "write_auth"} THEN 1 ELSE 0) + Writes(Tail(steps))

\* C17: the I/O steps connect has made are at every moment a prefix of: write
\* connect message, read auth length, read auth list, write auth choice, read
\* accept byte, read version, read name length, read name; so none is made
\* twice. A run that failed has an error and no session and makes no further
\* step, its last step being the one that failed; a run that returned a
\* session made all the steps. The messages written are those of the write
\* steps made, the failed one excepted.
C17_HandshakeOrder ==
    /\ Len(io_trace) <= Len(HandshakeSteps)
    /\ io_trace = SubSeq(HandshakeSteps, 1, Len(io_trace))
    /\ pc \in {"failed", "done", "panicked"} => ~ENABLED Next
    /\ pc = "failed" =>
         /\ ~result.ok
         /\ Len(written) \in {Writes(io_trace), Writes(io_trace) - 1}
         /\ Len(written) = Writes(io_trace) - 1 =>
               io_trace[Len(io_trace)] \in {"write_connect", "write_auth"}
    /\ pc = "panicked" => io_trace = <<>> /\ written = <<>>
    /\ pc = "done" => result.ok /\ io_trace = HandshakeSteps
    /\ pc \notin {"failed", "panicked"} => Len(written) = Writes(io_trace)

\* the transport failed while the version was read: six steps made, the two
\* messages written, an error returned
C17_Witness ==
    /\ pc = "failed"
    /\ io_trace = <<"write_connect", "read_auth_len", "read_auth_list", "write_auth",
                    "read_accept", "read_version">>
    /\ result.err = TransportError("EndOfFile")
    /\ Len(written) = 2
    /\ accepted = 1

\* (major, minor, patch) is 3.1.0 or later, compared field by field
AtLeast_3_1_0(v) == v[1] > 3 \/ (v[1] = 3 /\ v[2] >= 1)

\* C21: the version check lets a version through only when it is 3.1.0 or
\* later in the order of (major, minor, patch): once connect goes on to read
\* the name length, the daemon's major version is at least 3.
C21_VersionOrder ==
    "read_name_len" \in {io_trace[i] : i \in 1..Len(io_trace)} \/ pc = "read_name_len" =>
        /\ version[1] >= 3
        /\ AtLeast_3_1_0(version)

====
